---- MODULE Spec2Model ----
(***************************************************************************)
(* Model of src/main.py: a plagiarism checker that reads two text files,   *)
(* segments them with jieba, filters punctuation and stop words, scores    *)
(* the two word lists by the Jaccard index on multisets (collections.      *)
(* Counter) and writes the score, formatted to two decimals, to a third    *)
(* file.                                                                   *)
(*                                                                         *)
(* Representation.                                                         *)
(*  - a character is its Unicode code point; a str is a sequence of code   *)
(*    points (the str literals of the source are transcribed below);       *)
(*  - a document text is represented by the sequence of units ("words")    *)
(*    that jieba.lcut returns for it.  jieba is an external library: what  *)
(*    it returns is an input of the model, drawn from bounded sets;        *)
(*  - a Counter is a function from the keys it holds to positive counts;   *)
(*  - the float intersection / union is the exact fraction in lowest       *)
(*    terms, a record [num, den]: two quotients of small integers are the  *)
(*    same float exactly when they are the same fraction; the int 0 of     *)
(*    line 86 is the fraction 0/1 (Python: 0 == 0.0);                      *)
(*  - a file content written by write_result is a sequence of one-char     *)
(*    strings.                                                             *)
(***************************************************************************)
EXTENDS Integers, Sequences, FiniteSets

VARIABLES
    argv,               \* sys.argv
    fs,                 \* the two input paths: what open(path, 'r') finds there
    ans,                \* what is at the output path: [kind, data]
    ans0,               \* the output file when main started (history)
    writes,             \* the number of times main modified the output file (history)
    pc,                 \* main's position
    original_text,      \* main's locals, None until assigned
    plagiarized_text,
    original_words,
    plagiarized_words,
    words,              \* preprocess_text's local of its last call (line 44)
    original_counter,   \* calculate_similarity's locals
    plagiarized_counter,
    intersection,
    union,
    similarity,
    stdout,             \* the lines printed so far
    raised              \* the exception that left main, or None

vars == <<argv, fs, ans, ans0, writes, pc, original_text, plagiarized_text,
          original_words, plagiarized_words, words, original_counter,
          plagiarized_counter, intersection, union, similarity, stdout, raised>>

\* the value of `raised` while no exception has left main
None == "None"

\* read_file's return value None (line 30), and a text local not yet assigned:
\* a text no file holds
NoneText == << <<-1>> >>

\* a similarity not yet computed
NoSimilarity == [num |-> 0, den |-> 0]

----------------------------------------------------------------------------
(* Bounds of the model.                                                    *)

\* the longest sys.argv tried
MaxArgc == 5
\* the most units in a document of a whole run of main
MaxTextUnits == 2
\* the most units the segmenter returns in the check of preprocess_text
MaxUnits == 3
\* the most tokens in a word list in the check of calculate_similarity
MaxTokens == 3

----------------------------------------------------------------------------
(* Helpers on sequences and numbers.                                       *)

Min(a, b) == IF a <= b THEN a ELSE b

Max(a, b) == IF a >= b THEN a ELSE b

RECURSIVE Gcd(_, _)
Gcd(a, b) == IF b = 0 THEN a ELSE Gcd(b, a % b)

RECURSIVE SumOver(_, _)
\* sum(c.values()) of a Counter c, over the key set K
SumOver(c, K) ==
    IF K = {} THEN 0
    ELSE LET k == CHOOSE x \in K : TRUE
         IN  c[k] + SumOver(c, K \ {k})

\* all sequences over S of length at most n
SeqsUpTo(S, n) == UNION {[1..k -> S] : k \in 0..n}

Range(s) == {s[i] : i \in DOMAIN s}

----------------------------------------------------------------------------
(* preprocess_text, lines 33-60.                                           *)

\* line 47: two adjacent str literals, '，。！？；：""' and '（）【】《》、',
\* which Python concatenates into one str
punctuation ==
    <<65292, 12290, 65281, 65311, 65307, 65306, 34, 34,
      65288, 65289, 12304, 12305, 12298, 12299, 12289>>

\* lines 50-51: the list of 28 stop words
stop_words ==
    << <<30340>>, <<20102>>, <<22312>>, <<26159>>, <<25105>>, <<26377>>,
       <<21644>>, <<23601>>, <<19981>>, <<20154>>, <<37117>>, <<19968>>,
       <<19968, 20010>>, <<19978>>, <<20063>>, <<24456>>, <<21040>>,
       <<35828>>, <<35201>>, <<21435>>, <<20320>>, <<20250>>, <<30528>>,
       <<27809, 26377>>, <<30475>>, <<22909>>, <<33258, 24049>>, <<36825>> >>

\* Python's `x in s` for two str: x is a contiguous substring of s
\* (the empty str is a substring of every str)
StrIn(x, s) ==
    \E i \in 0..(Len(s) - Len(x)) :
        \A j \in 1..Len(x) : s[i + j] = x[j]

\* Python's `x in l` for a list l: x equals an element
ListIn(x, l) == \E i \in DOMAIN l : l[i] = x

\* line 57: the condition under which a word is kept
Keeps(word) ==
    /\ ~StrIn(word, punctuation)
    /\ ~ListIn(word, stop_words)
    /\ Len(word) > 0

RECURSIVE FilterWords(_)
\* lines 54-58: the loop appending the kept words in order
FilterWords(ws) ==
    IF ws = <<>> THEN <<>>
    ELSE IF Keeps(Head(ws)) THEN <<Head(ws)>> \o FilterWords(Tail(ws))
         ELSE FilterWords(Tail(ws))

\* preprocess_text(text): text is represented by jieba.lcut(text)
preprocess_text(text) == FilterWords(text)

----------------------------------------------------------------------------
(* calculate_similarity, lines 63-90.                                      *)

\* c[k] of a Counter: 0 for a key it does not hold
Count(c, k) == IF k \in DOMAIN c THEN c[k] ELSE 0

\* a bug Counter could have: the set of the elements, each counted once
Counter_AsSet(list) == [k \in Range(list) |-> 1]

\* Counter(list), lines 75-76: each element with the number of its occurrences
Counter(list) ==
    [k \in Range(list) |-> Cardinality({i \in DOMAIN list : list[i] = k})]

\* a bug line 79 could have: | written for &
CounterAnd_Max(a, b) ==
    LET K == {k \in (DOMAIN a) \cup (DOMAIN b) : Max(Count(a, k), Count(b, k)) > 0}
    IN  [k \in K |-> Max(Count(a, k), Count(b, k))]

\* a & b of two Counters, line 79: the minimum of the two counts, for the
\* elements where it is positive
CounterAnd(a, b) ==
    LET K == {k \in DOMAIN a : Min(a[k], Count(b, k)) > 0}
    IN  [k \in K |-> Min(a[k], Count(b, k))]

\* a bug line 82 could have: + written for |
CounterOr_Sum(a, b) ==
    LET K == (DOMAIN a) \cup (DOMAIN b)
    IN  [k \in K |-> Count(a, k) + Count(b, k)]

\* a bug line 82 could have: the maximum taken over the keys of a alone
CounterOr_FirstKeys(a, b) ==
    [k \in DOMAIN a |-> Max(a[k], Count(b, k))]

\* a | b of two Counters, line 82: the maximum of the two counts, for the
\* elements of either where it is positive
CounterOr(a, b) ==
    LET K == {k \in (DOMAIN a) \cup (DOMAIN b) : Max(Count(a, k), Count(b, k)) > 0}
    IN  [k \in K |-> Max(Count(a, k), Count(b, k))]

\* sum(c.values())
SumValues(c) == SumOver(c, DOMAIN c)

ZeroDivisionError == [num |-> -1, den |-> 0]

\* a bug line 88 could have: // written for /
TrueDiv_Floor(n, d) ==
    IF d = 0 THEN ZeroDivisionError
    ELSE [num |-> n \div d, den |-> 1]

\* n / d of two ints, line 88: the float quotient, or ZeroDivisionError
TrueDiv(n, d) ==
    IF d = 0 THEN ZeroDivisionError
    ELSE LET g == Gcd(n, d) IN [num |-> n \div g, den |-> d \div g]

\* a bug lines 85-88 could have: no test of union == 0
Quotient_NoGuard(i, u) == TrueDiv(i, u)

\* lines 85-88
Quotient(i, u) ==
    IF u = 0 THEN [num |-> 0, den |-> 1]
    ELSE TrueDiv(i, u)

\* calculate_similarity(original_words, plagiarized_words), lines 75-90:
\* its locals and, in similarity, what it returns (or the exception)
calculate_similarity(ow, pw) ==
    LET oc == Counter(ow)
        pc_ == Counter(pw)
        i == SumValues(CounterAnd(oc, pc_))
        u == SumValues(CounterOr(oc, pc_))
    IN  [original_counter |-> oc, plagiarized_counter |-> pc_,
         intersection |-> i, union |-> u, similarity |-> Quotient(i, u)]

----------------------------------------------------------------------------
(* write_result's formatting, line 103, and main's, line 141.              *)

Digits == <<"0", "1", "2", "3", "4", "5", "6", "7", "8", "9">>

\* the value in hundredths that '.2f' prints: the nearest, and the even one
\* for a value halfway (exact for the quotients whose denominator is below 40:
\* their only halfway values are eighths, which a float holds exactly)
Hundredths(s) ==
    LET q == (100 * s.num) \div s.den
        r == (100 * s.num) % s.den
    IN  IF 2 * r > s.den THEN q + 1
        ELSE IF 2 * r < s.den THEN q
        ELSE IF q % 2 = 0 THEN q ELSE q + 1

\* f"{similarity:.2f}"
Format2f(s) ==
    LET h == Hundredths(s)
    IN  <<Digits[(h \div 100) + 1], ".", Digits[((h \div 10) % 10) + 1],
          Digits[(h % 10) + 1]>>

\* line 103: what write_result writes
ResultLine(s) == Format2f(s) \o <<"\n">>

----------------------------------------------------------------------------
(* The inputs.                                                             *)

\* sys.argv of length n: the program name, then the paths given
ArgvOfLen(n) ==
    [i \in 1..n |-> CASE i = 1 -> "main.py"
                      [] i = 2 -> "orig.txt"
                      [] i = 3 -> "orig_add.txt"
                      [] i = 4 -> "ans.txt"
                      [] OTHER -> "extra"]

InputPaths == {"orig.txt", "orig_add.txt"}

\* what open(path, 'r', encoding='utf-8') and f.read() can meet at a path
FileKinds == {"file", "missing", "directory", "denied", "undecodable"}

\* the units of the documents of a whole run: a punctuation mark, a stop
\* word, two words
TextUnits == {<<65292>>, <<30340>>, <<35770, 25991>>, <<26597, 37325>>}

Texts == SeqsUpTo(TextUnits, MaxTextUnits)

\* the units in the check of preprocess_text: the empty unit; the marks
\* U+FF0C and U+0022; U+FF0C U+3002, two marks adjacent in `punctuation`;
\* U+3002 U+FF0C, two marks not adjacent in it; U+002E, which is not in it;
\* the stop words U+7684 and U+4E00 U+4E2A; U+7684 U+4E86, two stop words
\* in one unit; a word
SegUnits ==
    {<<>>, <<65292>>, <<34>>, <<65292, 12290>>, <<12290, 65292>>, <<46>>,
     <<30340>>, <<19968, 20010>>, <<30340, 20102>>, <<35770, 25991>>}

\* the tokens in the check of calculate_similarity: a word, the same word
\* in traditional script, another word
Tokens == {<<35770, 25991>>, <<35542, 25991>>, <<26597, 37325>>}

\* what can be at the output path when main starts
AnsStates ==
    {[kind |-> "missing", data |-> <<>>],
     [kind |-> "file", data |-> <<"0", ".", "5", "0", "\n">>],
     [kind |-> "directory", data |-> <<>>]}

----------------------------------------------------------------------------
(* read_file, lines 12-30: what it returns, prints and raises for a path   *)
(* at which open() and read() meet fs[filename]; content is the text of    *)
(* the file when there is one.                                             *)

read_file(filename, content) ==
    CASE fs[filename] = "file" ->
            [ret |-> content, printed |-> <<>>, exc |-> None]
      [] fs[filename] = "missing" ->
            [ret |-> NoneText,
             printed |-> <<[tag |-> "file_not_found", filename |-> filename]>>,
             exc |-> None]
      [] fs[filename] = "directory" ->
            [ret |-> NoneText, printed |-> <<>>, exc |-> "IsADirectoryError"]
      [] fs[filename] = "denied" ->
            [ret |-> NoneText, printed |-> <<>>, exc |-> "PermissionError"]
      [] fs[filename] = "undecodable" ->
            [ret |-> NoneText, printed |-> <<>>, exc |-> "UnicodeDecodeError"]

----------------------------------------------------------------------------
(* main, lines 106-141, one action per statement.                          *)

Locals0 ==
    /\ original_text = NoneText
    /\ plagiarized_text = NoneText
    /\ original_words = <<>>
    /\ plagiarized_words = <<>>
    /\ words = <<>>
    /\ original_counter = <<>>
    /\ plagiarized_counter = <<>>
    /\ intersection = 0
    /\ union = 0
    /\ similarity = NoSimilarity
    /\ stdout = <<>>
    /\ raised = None
    /\ writes = 0

Init ==
    /\ argv \in {ArgvOfLen(n) : n \in 1..MaxArgc}
    /\ fs \in [InputPaths -> FileKinds]
    /\ ans \in AnsStates
    /\ ans0 = ans
    /\ pc = "check_args"
    /\ Locals0

\* lines 111-118
CheckArgs ==
    /\ pc = "check_args"
    /\ IF Len(argv) # 4
       THEN /\ stdout' = Append(stdout, [tag |-> "input_error"])
            /\ pc' = "done"
       ELSE /\ stdout' = stdout
            /\ pc' = "read_original"
    /\ UNCHANGED <<argv, fs, ans, ans0, writes, original_text, plagiarized_text,
                   original_words, plagiarized_words, words, original_counter,
                   plagiarized_counter, intersection, union, similarity, raised>>

\* lines 121-123
ReadOriginal ==
    /\ pc = "read_original"
    /\ \E content \in Texts :
          LET r == read_file(argv[2], content)
          IN  /\ stdout' = stdout \o r.printed
              /\ raised' = r.exc
              /\ original_text' = IF r.exc = None THEN r.ret ELSE original_text
              /\ pc' = IF r.exc # None THEN "crashed"
                       ELSE IF r.ret = NoneText THEN "done"
                       ELSE "read_plagiarized"
    /\ UNCHANGED <<argv, fs, ans, ans0, writes, plagiarized_text,
                   original_words, plagiarized_words, words, original_counter,
                   plagiarized_counter, intersection, union, similarity>>

\* lines 126-128
ReadPlagiarized ==
    /\ pc = "read_plagiarized"
    /\ \E content \in Texts :
          LET r == read_file(argv[3], content)
          IN  /\ stdout' = stdout \o r.printed
              /\ raised' = r.exc
              /\ plagiarized_text' = IF r.exc = None THEN r.ret ELSE plagiarized_text
              /\ pc' = IF r.exc # None THEN "crashed"
                       ELSE IF r.ret = NoneText THEN "done"
                       ELSE "preprocess_original"
    /\ UNCHANGED <<argv, fs, ans, ans0, writes, original_text,
                   original_words, plagiarized_words, words, original_counter,
                   plagiarized_counter, intersection, union, similarity>>

\* line 131
PreprocessOriginal ==
    /\ pc = "preprocess_original"
    /\ words' = original_text
    /\ original_words' = preprocess_text(original_text)
    /\ pc' = "preprocess_plagiarized"
    /\ UNCHANGED <<argv, fs, ans, ans0, writes, original_text, plagiarized_text,
                   plagiarized_words, original_counter, plagiarized_counter,
                   intersection, union, similarity, stdout, raised>>

\* line 132
PreprocessPlagiarized ==
    /\ pc = "preprocess_plagiarized"
    /\ words' = plagiarized_text
    /\ plagiarized_words' = preprocess_text(plagiarized_text)
    /\ pc' = "calculate"
    /\ UNCHANGED <<argv, fs, ans, ans0, writes, original_text, plagiarized_text,
                   original_words, original_counter, plagiarized_counter,
                   intersection, union, similarity, stdout, raised>>

\* line 135
CalculateSimilarity ==
    /\ pc = "calculate"
    /\ LET r == calculate_similarity(original_words, plagiarized_words)
       IN  /\ original_counter' = r.original_counter
           /\ plagiarized_counter' = r.plagiarized_counter
           /\ intersection' = r.intersection
           /\ union' = r.union
           /\ IF r.similarity = ZeroDivisionError
              THEN /\ similarity' = similarity
                   /\ raised' = "ZeroDivisionError"
                   /\ pc' = "crashed"
              ELSE /\ similarity' = r.similarity
                   /\ raised' = raised
                   /\ pc' = "write_open"
    /\ UNCHANGED <<argv, fs, ans, ans0, writes, original_text, plagiarized_text,
                   original_words, plagiarized_words, words, stdout>>

\* line 138, write_result line 102: open(filename, 'w') creates the file or
\* truncates it
WriteOpen ==
    /\ pc = "write_open"
    /\ IF ans.kind = "directory"
       THEN /\ raised' = "IsADirectoryError"
            /\ pc' = "crashed"
            /\ UNCHANGED <<ans, writes>>
       ELSE /\ ans' = [kind |-> "file", data |-> <<>>]
            /\ writes' = writes + 1
            /\ pc' = "write_data"
            /\ raised' = raised
    /\ UNCHANGED <<argv, fs, ans0, original_text, plagiarized_text,
                   original_words, plagiarized_words, words, original_counter,
                   plagiarized_counter, intersection, union, similarity, stdout>>

\* write_result line 103 and the close of the file: the line reaches the file
WriteData ==
    /\ pc = "write_data"
    /\ ans' = [kind |-> "file", data |-> ResultLine(similarity)]
    /\ writes' = writes + 1
    /\ pc' = "print"
    /\ UNCHANGED <<argv, fs, ans0, original_text, plagiarized_text,
                   original_words, plagiarized_words, words, original_counter,
                   plagiarized_counter, intersection, union, similarity, stdout,
                   raised>>

\* write_result line 103 and the close of the file, when the device fails
\* (it is full, say): OSError leaves write_result and main, and the file
\* keeps the k characters that reached it
WriteFails ==
    /\ pc = "write_data"
    /\ \E k \in 0..(Len(ResultLine(similarity)) - 1) :
          /\ ans' = [kind |-> "file", data |-> SubSeq(ResultLine(similarity), 1, k)]
          /\ writes' = IF k = 0 THEN writes ELSE writes + 1
    /\ raised' = "OSError"
    /\ pc' = "crashed"
    /\ UNCHANGED <<argv, fs, ans0, original_text, plagiarized_text,
                   original_words, plagiarized_words, words, original_counter,
                   plagiarized_counter, intersection, union, similarity, stdout>>

\* line 141
PrintResult ==
    /\ pc = "print"
    /\ stdout' = Append(stdout, [tag |-> "similarity", text |-> Format2f(similarity)])
    /\ pc' = "done"
    /\ UNCHANGED <<argv, fs, ans, ans0, writes, original_text, plagiarized_text,
                   original_words, plagiarized_words, words, original_counter,
                   plagiarized_counter, intersection, union, similarity, raised>>

Next ==
    \/ CheckArgs
    \/ ReadOriginal
    \/ ReadPlagiarized
    \/ PreprocessOriginal
    \/ PreprocessPlagiarized
    \/ CalculateSimilarity
    \/ WriteOpen
    \/ WriteData
    \/ WriteFails
    \/ PrintResult

\* a whole run of main
Spec == Init /\ [][Next]_vars

----------------------------------------------------------------------------
(* preprocess_text alone: main at line 131 with the units the segmenter    *)
(* returned drawn from SegUnits.                                           *)

InitFilter ==
    /\ argv = ArgvOfLen(4)
    /\ fs = [p \in InputPaths |-> "file"]
    /\ ans = [kind |-> "missing", data |-> <<>>]
    /\ ans0 = ans
    /\ pc = "preprocess_original"
    /\ original_text \in SeqsUpTo(SegUnits, MaxUnits)
    /\ plagiarized_text = <<>>
    /\ original_words = <<>>
    /\ plagiarized_words = <<>>
    /\ words = <<>>
    /\ original_counter = <<>>
    /\ plagiarized_counter = <<>>
    /\ intersection = 0
    /\ union = 0
    /\ similarity = NoSimilarity
    /\ stdout = <<>>
    /\ raised = None
    /\ writes = 0

NextFilter == PreprocessOriginal

SpecFilter == InitFilter /\ [][NextFilter]_vars

----------------------------------------------------------------------------
(* calculate_similarity alone: main at line 135 with the two word lists    *)
(* drawn from Tokens.                                                      *)

InitScore ==
    /\ argv = ArgvOfLen(4)
    /\ fs = [p \in InputPaths |-> "file"]
    /\ ans = [kind |-> "missing", data |-> <<>>]
    /\ ans0 = ans
    /\ pc = "calculate"
    /\ original_words \in SeqsUpTo(Tokens, MaxTokens)
    /\ plagiarized_words \in SeqsUpTo(Tokens, MaxTokens)
    /\ original_text = original_words
    /\ plagiarized_text = plagiarized_words
    /\ words = plagiarized_text
    /\ original_counter = <<>>
    /\ plagiarized_counter = <<>>
    /\ intersection = 0
    /\ union = 0
    /\ similarity = NoSimilarity
    /\ stdout = <<>>
    /\ raised = None
    /\ writes = 0

NextScore == CalculateSimilarity

SpecScore == InitScore /\ [][NextScore]_vars

----------------------------------------------------------------------------
(* The statements checked, and what they are stated with.                  *)

\* the number of occurrences of token t in word list l
RECURSIVE Occurrences(_, _)
Occurrences(l, t) ==
    IF l = <<>> THEN 0
    ELSE (IF Head(l) = t THEN 1 ELSE 0) + Occurrences(Tail(l), t)

\* the sum over the tokens of T of the smaller of the two counts
RECURSIVE SumOfMin(_, _, _)
SumOfMin(A, B, T) ==
    IF T = {} THEN 0
    ELSE LET t == CHOOSE x \in T : TRUE
         IN  Min(Occurrences(A, t), Occurrences(B, t)) + SumOfMin(A, B, T \ {t})

\* the sum over the tokens of T of the larger of the two counts
RECURSIVE SumOfMax(_, _, _)
SumOfMax(A, B, T) ==
    IF T = {} THEN 0
    ELSE LET t == CHOOSE x \in T : TRUE
         IN  Max(Occurrences(A, t), Occurrences(B, t)) + SumOfMax(A, B, T \ {t})

\* the tokens in both word lists
Shared == Range(original_words) \cap Range(plagiarized_words)

\* calculate_similarity has returned
Scored == pc = "write_open"

\* calculate_similarity has returned or raised
ScoreEnded == pc \in {"write_open", "crashed"}

\* C1: when calculate_similarity(A, B) has returned, its intersection size is
\* the sum over the tokens in both A and B of min(count in A, count in B), its
\* union size is the sum over the tokens in A or B of max(count in A, count
\* in B), union size = len(A) + len(B) - intersection size, and when the union
\* size is not 0 the result is the quotient intersection size / union size.
C1_JaccardOnMultisets ==
    ScoreEnded =>
        /\ Scored
        /\ intersection = SumOfMin(original_words, plagiarized_words, Shared)
        /\ union = SumOfMax(original_words, plagiarized_words,
                            Range(original_words) \cup Range(plagiarized_words))
        /\ union = Len(original_words) + Len(plagiarized_words) - intersection
        /\ union # 0 =>
              /\ similarity.den > 0
              /\ similarity.num * union = intersection * similarity.den

\* a case of C1: a token occurs in both lists a different number of times,
\* and another token in one list only
C1_Witness ==
    /\ Scored
    /\ \E t \in Shared :
          Occurrences(original_words, t) # Occurrences(plagiarized_words, t)
    /\ Range(original_words) # Range(plagiarized_words)
    /\ intersection >= 1
    /\ union > intersection

\* C2: for all A and B, empty ones too, calculate_similarity(A, B) returns
\* (it raises nothing, ZeroDivisionError included) a value s with
\* 0.0 <= s <= 1.0, and 0.0 when the union size is 0.
C2_DefinedAndBounded ==
    ScoreEnded =>
        /\ Scored
        /\ raised = None
        /\ similarity.den > 0
        /\ 0 <= similarity.num
        /\ similarity.num <= similarity.den
        /\ union = 0 => similarity = [num |-> 0, den |-> 1]

\* a case of C2: both lists empty, the union size 0, and 0.0 returned
C2_Witness ==
    /\ Scored
    /\ original_words = <<>>
    /\ plagiarized_words = <<>>
    /\ union = 0
    /\ similarity = [num |-> 0, den |-> 1]

\* C3: whenever A and B share no token (both empty, one empty, or both
\* non-empty with no token in common), calculate_similarity(A, B) returns 0.0
\* and raises nothing.
C3_DisjointScoresZero ==
    (ScoreEnded /\ Shared = {}) =>
        /\ Scored
        /\ raised = None
        /\ similarity = [num |-> 0, den |-> 1]

\* a case of C3: two non-empty lists with no token in common, scored
C3_Witness ==
    /\ Scored
    /\ original_words # <<>>
    /\ plagiarized_words # <<>>
    /\ Shared = {}
    /\ similarity.num = 0

\* C4: for every non-empty A, calculate_similarity(A, A) is 1.0.
C4_Identity ==
    (ScoreEnded /\ original_words # <<>> /\ plagiarized_words = original_words) =>
        /\ Scored
        /\ similarity = [num |-> 1, den |-> 1]

\* a case of C4: a list with a repeated token and another token, scored
\* against itself
C4_Witness ==
    /\ Scored
    /\ plagiarized_words = original_words
    /\ Len(original_words) >= 3
    /\ Cardinality(Range(original_words)) = 2

\* C5: calculate_similarity(A, B) = calculate_similarity(B, A): the value
\* returned for (A, B) is the one the function gives for the lists swapped.
C5_Symmetry ==
    Scored =>
        similarity =
            calculate_similarity(plagiarized_words, original_words).similarity

\* a case of C5: two lists of different lengths and different vocabularies
\* that share a token, with a score strictly between 0 and 1
C5_Witness ==
    /\ Scored
    /\ Len(original_words) < Len(plagiarized_words)
    /\ Range(original_words) # Range(plagiarized_words)
    /\ Shared # {}
    /\ 0 < similarity.num
    /\ similarity.num < similarity.den

\* C9 as stated: whenever the union size is not 0, calculate_similarity(A, B)
\* is in (0.0, 1.0], strictly greater than 0.
C9_PositiveUnlessEmptyUnion ==
    (Scored /\ union # 0) =>
        /\ 0 < similarity.num
        /\ similarity.num <= similarity.den

\* C9 amended: whenever the union size is not 0, calculate_similarity(A, B) is
\* in [0.0, 1.0], and it is greater than 0 exactly when A and B share a token
\* (it is 0.0 for every pair without a common token, empty union or not).
C9_PositiveIffShared ==
    (ScoreEnded /\ Len(original_words) + Len(plagiarized_words) > 0) =>
        /\ Scored
        /\ union # 0
        /\ similarity.den > 0
        /\ 0 <= similarity.num
        /\ similarity.num <= similarity.den
        /\ (similarity.num > 0) <=> (Shared # {})

\* a case of C9: exactly one list is empty, so the union size is not 0 and
\* the score is 0.0
C9_Witness ==
    /\ Scored
    /\ original_words # <<>>
    /\ plagiarized_words = <<>>
    /\ union # 0
    /\ similarity.num = 0

\* the single characters of the punctuation set
PunctuationChars == Range(punctuation)

\* the unit is dropped by the rule C6 states
DroppedAsStated(unit) ==
    \/ Len(unit) = 1 /\ unit[1] \in PunctuationChars
    \/ unit \in Range(stop_words)
    \/ Len(unit) = 0

\* the units C6 says survive, in their order
RECURSIVE SurvivorsAsStated(_)
SurvivorsAsStated(units) ==
    IF units = <<>> THEN <<>>
    ELSE IF DroppedAsStated(Head(units)) THEN SurvivorsAsStated(Tail(units))
         ELSE <<Head(units)>> \o SurvivorsAsStated(Tail(units))

\* C6: preprocess_text drops a unit of the segmenter if and only if it is one
\* single character of the punctuation set, one entry of the stop-word list,
\* or of length zero; every other unit, a unit of several punctuation
\* characters included, survives, in the original order.
C6_DropsExactMatchesOnly ==
    pc = "preprocess_plagiarized" => original_words = SurvivorsAsStated(words)

\* the input paths at which there is no file
MissingPaths == {p \in InputPaths : fs[p] = "missing"}

\* the input paths at which open() and read() do not get a text
UnreadablePaths == {p \in InputPaths : fs[p] # "file"}

\* main is in, or past, the tokenize/score pipeline
InPipeline ==
    pc \in {"preprocess_original", "preprocess_plagiarized", "calculate",
            "write_open", "write_data", "print"}

\* main has modified the output file
OutputTouched == ans # ans0 \/ writes > 0

\* C7: in a run with an argument count other than three, or with the
\* reference or the candidate file not found, main prints a diagnostic (naming
\* a missing path in the file-not-found case), returns without raising, never
\* runs the pipeline and never writes the output file; the output file is
\* written only in runs with three arguments whose two reads succeeded.
C7_BadArgsOrMissingFileIsNoOp ==
    /\ (Len(argv) # 4 \/ MissingPaths # {}) =>
          /\ raised = None
          /\ pc # "crashed"
          /\ ~InPipeline
          /\ ~OutputTouched
          /\ pc = "done" =>
                IF Len(argv) # 4
                THEN \E i \in DOMAIN stdout : stdout[i].tag = "input_error"
                ELSE \E i \in DOMAIN stdout :
                        /\ stdout[i].tag = "file_not_found"
                        /\ stdout[i].filename \in MissingPaths
    /\ OutputTouched =>
          /\ Len(argv) = 4
          /\ original_text # NoneText
          /\ plagiarized_text # NoneText

\* C8: whenever an input path does not resolve to a readable file, whatever
\* the cause (missing, a directory, no read permission, undecodable bytes),
\* the failure is reported, no output file is produced and no exception
\* propagates past main.
C8_UnreadableInputIsRecovered ==
    (Len(argv) = 4 /\ UnreadablePaths # {}) =>
        /\ raised = None
        /\ pc # "crashed"
        /\ ~OutputTouched
        /\ pc = "done" => stdout # <<>>

\* C10: main modifies the output file at most once, only after the score is
\* computed, and in every state the output file holds its previous content or
\* the complete two-decimal score line, never an empty or partial content.
C10_OutputWrittenOnceAtomically ==
    /\ writes <= 1
    /\ OutputTouched => similarity # NoSimilarity
    /\ \/ ans = ans0
       \/ /\ similarity # NoSimilarity
          /\ ans = [kind |-> "file", data |-> ResultLine(similarity)]

====
